---- MODULE Spec2Model ----
(***************************************************************************)
(* php-fpm_exporter: the scrape core (Pool.Update, PoolManager.Update),    *)
(* the Prometheus collector (Exporter.Collect) and CountProcessState.      *)
(*                                                                         *)
(* One Exporter holds one PoolManager.  Every HTTP scrape calls            *)
(* Exporter.Collect on its own goroutine; Collect takes the exporter       *)
(* mutex, runs PoolManager.Update (one goroutine per pool, joined with a   *)
(* WaitGroup), reads the pools and emits the samples.                      *)
(***************************************************************************)
EXTENDS Integers, Sequences, FiniteSets, TLC

\* ------------------------------------------------------------ bounds
NumPools == 2
NumCollectors == 2
MaxUpdates == 4
MaxProcs == 3
MaxRaw == 5
MaxLit == 1
MaxDigits == 3
MaxSec == 12
MaxPath == 3
MaxCalls == 2
MaxActive == 3

Collectors == 1..NumCollectors

\* ------------------------------------------------------------ constants
PoolProcessRequestIdle == "Idle"
PoolProcessRequestRunning == "Running"
PoolProcessRequestFinishing == "Finishing"
PoolProcessRequestReadingHeaders == "Reading headers"
PoolProcessRequestInfo == "Getting request informations"
PoolProcessRequestEnding == "Ending"

\* The six states PHP-FPM reports, plus one it does not.
KnownStates ==
    << PoolProcessRequestIdle, PoolProcessRequestRunning,
       PoolProcessRequestReadingHeaders, PoolProcessRequestInfo,
       PoolProcessRequestFinishing, PoolProcessRequestEnding >>
ProcessStates == { KnownStates[i] : i \in 1..Len(KnownStates) } \cup { "Zombie" }

\* The steps of Pool.Update, in program order.
Steps == << "parse", "connect", "request", "read", "repair", "decode" >>

VARIABLES
    addr,        \* addr[p]: the configured Address of pool p
    fixCount,    \* Exporter.CountProcessState
    pools,       \* PoolManager.Pools
    mutex,       \* Exporter.mutex: 0 when free, else the collector holding it
    cpc,         \* cpc[k]: where Collect call k stands
    idx,         \* idx[k]: loop index of PoolManager.Update run by Collect k
    wg,          \* wg[k]: the WaitGroup counter of that PoolManager.Update
    wpc,         \* wpc[k][p]: where the goroutine of cycle k for pool p stands
    conn,        \* conn[k][p]: open fcgi connections of that goroutine
    crashed,     \* the process died of an unrecovered panic
    samples,     \* the metrics sent on ch by the Collect now past its loop
    logged,      \* the pools that Collect logged as inconsistent
    cycles,      \* number of PoolManager.Update calls started
    prev,        \* history: prev[p] = pool p when its current Update began
    ret,         \* history: ret[p] = what the last Pool.Update returned
    trace,       \* history: trace[p] = steps the current Update executed
    recv,        \* history: recv[p] = the body the upstream sent this cycle
    runs,        \* history: runs[p] = Pool.Update calls begun on p this cycle
    failed,      \* history: failed[p] = number of Updates that returned an error
    mret,        \* mret[k]: what the PoolManager.Update of Collect k returned
    procs,       \* input of CountProcessState (CountSpec)
    counted,     \* its result (CountSpec)
    rawProcs,    \* the raw field texts of the processes of a body (FixSpec)
    text,        \* the bytes of that body, as repaired so far (FixSpec)
    applied,     \* number of times JSONResponseFixer was applied (FixSpec)
    lits,        \* the literals of a status document (DecodeSpec)
    dpc,         \* where the decoding of that document stands (DecodeSpec)
    dpool,       \* the pool it was decoded into (DecodeSpec)
    derr,        \* what Pool.Update returned for it (DecodeSpec)
    codec,       \* a value taken through the JSON codecs (CodecSpec)
    parsed,      \* an address and what parseURL made of it (ParseSpec)
    srv,         \* the server command: its position, requests, exit (ServerSpec)
    upd          \* one pool under a version of Pool.Update (VersionSpec)

vars == << addr, fixCount, pools, mutex, cpc, idx, wg, wpc, conn, crashed,
           samples, logged, cycles, prev, ret, trace, recv, runs, failed, mret,
           procs, counted, rawProcs, text, applied, lits, dpc, dpool, derr,
           codec, parsed, srv, upd >>

\* The state of the exporter, which the specifications of the pure functions
\* leave alone.
collectVars == << addr, fixCount, pools, mutex, cpc, idx, wg, wpc, conn, crashed,
                  samples, logged, cycles, prev, ret, trace, recv, runs, failed,
                  mret >>

countVars == << procs, counted >>
fixVars == << rawProcs, text, applied >>
decVars == << lits, dpc, dpool, derr >>
codecVars == << codec >>
parseVars == << parsed >>
serverVars == << srv >>
versionVars == << upd >>

\* The inputs and results of the pure functions, which Collect never touches.
pure == << countVars, fixVars, decVars, codecVars, parseVars, serverVars, versionVars >>

hist == << prev, ret, trace, recv, failed >>

\* The indices of PoolManager.Pools.
PoolIds == 1..Len(pools)

\* ------------------------------------------------------------ JSON values
JInt(n) == [t |-> "int", v |-> n]
JStr(s) == [t |-> "string", v |-> s]
JArr(a) == [t |-> "array", v |-> a]

\* The process list the upstream reports in its version-v status: v processes.
ProcList(v) ==
    [i \in 1..v |-> [State |-> KnownStates[((i - 1) % Len(KnownStates)) + 1],
                     Requests |-> i, RequestDuration |-> i]]

\* A number literal that no int64 holds (18446744073709550774), and one with
\* a fraction.
JBig == [t |-> "big", v |-> 0]
JFloat == [t |-> "float", v |-> 0]

\* One process of a status document: the keys in wire order.
ProcDoc(state, requests, duration) ==
    << << "state", JStr(state) >>, << "requests", requests >>,
       << "request duration", duration >> >>

\* The process list of the version-v status, as the upstream writes it.
ProcDocs(v) ==
    [i \in 1..v |-> ProcDoc(ProcList(v)[i].State, JInt(i), JInt(i))]

\* The pool name the upstream reports in version v ("" is <<>>).
PoolName(v) == << "www", v >>

\* The self-reported counters of version v.
ReportedActive(v) == v \div 2
ReportedIdle(v) == v - (v \div 2)

\* The version of its status the upstream reports during cycle c.
Version(c) == c

PayloadKinds == { "ok", "rawquote", "broken", "badtime", "badint" }

\* A status body as PHP-FPM writes it: the keys in wire order.
\*   ok        the full, well-formed document
\*   rawquote  a request uri holds raw double quotes (repairable)
\*   broken    not JSON, also after the repair
\*   badtime   valid JSON, "start time" is not an integer literal
\*   badint    valid JSON, "accepted conn" is a string
Payload(kind, v) ==
    [ syntax |-> CASE kind = "rawquote" -> "rawquote"
                   [] kind = "broken" -> "invalid"
                   [] OTHER -> "valid",
      fields |-> << << "pool", JStr(PoolName(v)) >>,
                    << "start time", IF kind = "badtime" THEN JStr(<<"x">>) ELSE JInt(v) >>,
                    << "accepted conn", IF kind = "badint" THEN JStr(<<"x">>) ELSE JInt(v) >>,
                    << "idle processes", JInt(ReportedIdle(v)) >>,
                    << "active processes", JInt(ReportedActive(v)) >>,
                    << "total processes", JInt(v) >>,
                    << "processes", JArr(ProcDocs(v)) >> >> ]

\* ------------------------------------------------------------ Pool
NewPool ==
    [ ScrapeError |-> "nil", ScrapeFailures |-> 0,
      Name |-> << >>, StartTime |-> 0, AcceptedConnections |-> 0,
      IdleProcesses |-> 0, ActiveProcesses |-> 0, TotalProcesses |-> 0,
      Processes |-> << >> ]

\* The upstream-reported part of a pool: everything but the scrape state.
Reported(p) ==
    [ Name |-> p.Name, StartTime |-> p.StartTime,
      AcceptedConnections |-> p.AcceptedConnections,
      IdleProcesses |-> p.IdleProcesses, ActiveProcesses |-> p.ActiveProcesses,
      TotalProcesses |-> p.TotalProcesses, Processes |-> p.Processes ]

\* What a successful decode of the version-v document leaves in a pool.
ReportedBy(v) ==
    [ Name |-> PoolName(v), StartTime |-> v, AcceptedConnections |-> v,
      IdleProcesses |-> ReportedIdle(v), ActiveProcesses |-> ReportedActive(v),
      TotalProcesses |-> v, Processes |-> ProcList(v) ]


\* ------------------------------------------------------------ addresses
\* The configured scrape URIs, as the pieces of their text: the scheme before
\* "://", the tokens of the authority and the tokens of the path, in which
\* ";" is a token of its own.
TcpAddress ==
    [ scheme |-> "tcp", host |-> << "127.0.0.1", ":", "9000" >>, path |-> << "/status" >> ]
UnixAddress ==
    [ scheme |-> "unix", host |-> << >>, path |-> << "/tmp/php.sock", ";", "/status" >> ]
BadAddress ==
    [ scheme |-> "tcp", host |-> << "127.0.0.1", ":", "port" >>, path |-> << "/status" >> ]
Addresses == { TcpAddress, UnixAddress, BadAddress }

\* The ports net/url accepts: digits, or nothing after the colon.
NumericPorts == { "", "9000" }

\* net/url.Parse: (*URL, error); a port that is not numeric is an error, and
\* the URL is nil on error.
url_Parse(rawurl) ==
    IF Len(rawurl.host) > 2 /\ rawurl.host[3] \notin NumericPorts
    THEN [ nil |-> TRUE, err |-> "parse", Scheme |-> "", Host |-> << >>, Path |-> << >> ]
    ELSE [ nil |-> FALSE, err |-> "nil", Scheme |-> rawurl.scheme,
           Host |-> rawurl.host, Path |-> rawurl.path ]

\* strings.Split(path, ";") on a tokenised path.
RECURSIVE strings_Split(_)
strings_Split(path) ==
    IF \A i \in 1..Len(path) : path[i] # ";"
    THEN << path >>
    ELSE LET i == CHOOSE j \in 1..Len(path) :
                     path[j] = ";" /\ \A h \in 1..(j - 1) : path[h] # ";"
         IN  << SubSeq(path, 1, i - 1) >> \o strings_Split(SubSeq(path, i + 1, Len(path)))

\* parseURL: reading uri.Scheme of the nil URL that url.Parse returns with an
\* error is a nil-pointer dereference, a run-time panic.
parseURL(rawurl) ==
    LET uri == url_Parse(rawurl) IN
    IF uri.err # "nil"
    THEN IF uri.nil
         THEN [ panic |-> TRUE, err |-> uri.err, scheme |-> "", address |-> << >>, path |-> << >> ]
         ELSE [ panic |-> FALSE, err |-> uri.err, scheme |-> uri.Scheme,
                address |-> uri.Host, path |-> uri.Path ]
    ELSE IF uri.Scheme = "unix"
         THEN LET result == strings_Split(uri.Path) IN
              [ panic |-> FALSE, err |-> "nil", scheme |-> uri.Scheme,
                address |-> result[1],
                path |-> IF Len(result) > 1 THEN result[2] ELSE << >> ]
         ELSE [ panic |-> FALSE, err |-> "nil", scheme |-> uri.Scheme,
                address |-> uri.Host, path |-> uri.Path ]

\* ------------------------------------------------------------ decoding
\* JSONResponseFixer: re-encodes the raw text of every request uri, which
\* makes a body whose only defect is raw quotes in a request uri valid.
JSONResponseFixer(content) ==
    IF content.syntax = "rawquote" THEN [content EXCEPT !.syntax = "valid"] ELSE content

\* timestamp.UnmarshalJSON: strconv.Atoi of the literal; its error is returned.
timestamp_UnmarshalJSON(val) ==
    IF val.t = "int" THEN [err |-> "nil", ts |-> val.v] ELSE [err |-> "decode", ts |-> 0]

\* Mutant of StoreInt: a value that is no int64 is stored as 0, without
\* an error, the way a request duration is.
StoreIntCoerce(p, f, val, err) ==
    [pool |-> [p EXCEPT ![f] = IF val.t = "int" THEN val.v ELSE 0], err |-> err,
     abort |-> FALSE]

\* Storing one JSON value in the int64 field f: a value of another type is
\* an UnmarshalTypeError, which encoding/json saves, skipping the field.
StoreInt(p, f, val, err) ==
    IF val.t = "int"
    THEN [pool |-> [p EXCEPT ![f] = val.v], err |-> err, abort |-> FALSE]
    ELSE [pool |-> p, err |-> IF err = "nil" THEN "decode" ELSE err, abort |-> FALSE]

\* Mutant of requestDuration_UnmarshalJSON: the error of strconv.Atoi is
\* returned, as timestamp.UnmarshalJSON does.
requestDuration_ReturnsError(val) ==
    IF val.t = "int" THEN [err |-> "nil", rd |-> val.v] ELSE [err |-> "decode", rd |-> 0]

\* requestDuration.UnmarshalJSON: strconv.Atoi of the literal; on its error
\* the duration is 0 and no error is returned.
requestDuration_UnmarshalJSON(val) ==
    IF val.t = "int" THEN [err |-> "nil", rd |-> val.v] ELSE [err |-> "nil", rd |-> 0]

\* The zero value of PoolProcess.
NewPoolProcess == [State |-> "", Requests |-> 0, RequestDuration |-> 0]

\* Storing the value of one key of a process.
StoreProcessField(proc, key, val, err) ==
    CASE key = "state" ->
           IF val.t = "string"
           THEN [proc |-> [proc EXCEPT !.State = val.v], err |-> err, abort |-> FALSE]
           ELSE [proc |-> proc, err |-> IF err = "nil" THEN "decode" ELSE err, abort |-> FALSE]
      [] key = "requests" ->
           IF val.t = "int"
           THEN [proc |-> [proc EXCEPT !.Requests = val.v], err |-> err, abort |-> FALSE]
           ELSE [proc |-> proc, err |-> IF err = "nil" THEN "decode" ELSE err, abort |-> FALSE]
      [] key = "request duration" ->
           LET r == requestDuration_UnmarshalJSON(val) IN
           IF r.err = "nil"
           THEN [proc |-> [proc EXCEPT !.RequestDuration = r.rd], err |-> err, abort |-> FALSE]
           ELSE [proc |-> proc, err |-> r.err, abort |-> TRUE]
      [] OTHER -> [proc |-> proc, err |-> err, abort |-> FALSE]

\* The object loop of encoding/json for one process.
RECURSIVE DecodeProcess(_, _, _)
DecodeProcess(fields, proc, err) ==
    IF Len(fields) = 0
    THEN [proc |-> proc, err |-> err, abort |-> FALSE]
    ELSE LET r == StoreProcessField(proc, Head(fields)[1], Head(fields)[2], err) IN
         IF r.abort THEN r ELSE DecodeProcess(Tail(fields), r.proc, r.err)

\* The array loop of encoding/json for "processes": the elements in order,
\* appended to acc.
RECURSIVE DecodeProcesses(_, _, _)
DecodeProcesses(docs, acc, err) ==
    IF Len(docs) = 0
    THEN [processes |-> acc, err |-> err, abort |-> FALSE]
    ELSE LET r == DecodeProcess(Head(docs), NewPoolProcess, err) IN
         IF r.abort
         THEN [processes |-> Append(acc, r.proc), err |-> r.err, abort |-> TRUE]
         ELSE DecodeProcesses(Tail(docs), Append(acc, r.proc), r.err)

\* Storing the value of one key of the document in the pool.
StoreField(p, key, val, err) ==
    CASE key = "pool" ->
           IF val.t = "string"
           THEN [pool |-> [p EXCEPT !.Name = val.v], err |-> err, abort |-> FALSE]
           ELSE [pool |-> p, err |-> IF err = "nil" THEN "decode" ELSE err, abort |-> FALSE]
      [] key = "start time" ->
           LET r == timestamp_UnmarshalJSON(val) IN
           IF r.err = "nil"
           THEN [pool |-> [p EXCEPT !.StartTime = r.ts], err |-> err, abort |-> FALSE]
           ELSE [pool |-> p, err |-> r.err, abort |-> TRUE]
      [] key = "accepted conn" -> StoreInt(p, "AcceptedConnections", val, err)
      [] key = "idle processes" -> StoreInt(p, "IdleProcesses", val, err)
      [] key = "active processes" -> StoreInt(p, "ActiveProcesses", val, err)
      [] key = "total processes" -> StoreInt(p, "TotalProcesses", val, err)
      [] key = "processes" ->
           IF val.t = "array"
           THEN LET r == DecodeProcesses(val.v, << >>, err) IN
                [pool |-> [p EXCEPT !.Processes = r.processes], err |-> r.err,
                 abort |-> r.abort]
           ELSE [pool |-> p, err |-> IF err = "nil" THEN "decode" ELSE err, abort |-> FALSE]
      [] OTHER -> [pool |-> p, err |-> err, abort |-> FALSE]

\* The object loop of encoding/json: the keys in document order, each stored
\* in place; the error of an Unmarshaler ends the loop at once.
RECURSIVE DecodeObject(_, _, _)
DecodeObject(fields, p, err) ==
    IF Len(fields) = 0
    THEN [pool |-> p, err |-> err]
    ELSE LET r == StoreField(p, Head(fields)[1], Head(fields)[2], err) IN
         IF r.abort
         THEN [pool |-> r.pool, err |-> r.err]
         ELSE DecodeObject(Tail(fields), r.pool, r.err)

\* json.Unmarshal(content, &p): the syntax is checked before anything is
\* stored; then the document is decoded into the live pool.
json_Unmarshal(content, p) ==
    IF content.syntax # "valid"
    THEN [pool |-> p, err |-> "decode"]
    ELSE DecodeObject(content.fields, p, "nil")

\* The error values of fcgiclient.DialTimeout, fcgi.Get and ioutil.ReadAll.
DialError == "dial"
RequestError == "request"
ReadError == "read"

\* Mutant of Pool_error: the failure is recorded but not counted.
Pool_errorNoCount(p, err) == [p EXCEPT !.ScrapeError = err]

\* Pool.error
Pool_error(p, err) ==
    [p EXCEPT !.ScrapeError = err, !.ScrapeFailures = p.ScrapeFailures + 1]

\* ------------------------------------------------------------ counting
\* CountProcessState: a Go switch, whose cases do not fall through.
RECURSIVE CountStates(_, _, _)
CountStates(processes, active, idle) ==
    IF Len(processes) = 0
    THEN [active |-> active, idle |-> idle, total |-> active + idle]
    ELSE LET s == Head(processes).State IN
         CASE s = PoolProcessRequestRunning -> CountStates(Tail(processes), active + 1, idle)
           [] s = PoolProcessRequestIdle -> CountStates(Tail(processes), active, idle + 1)
           [] s = PoolProcessRequestEnding -> CountStates(Tail(processes), active, idle)
           [] s = PoolProcessRequestFinishing -> CountStates(Tail(processes), active, idle)
           [] s = PoolProcessRequestInfo -> CountStates(Tail(processes), active, idle)
           [] s = PoolProcessRequestReadingHeaders -> CountStates(Tail(processes), active + 1, idle)
           [] OTHER -> CountStates(Tail(processes), active, idle)

\* Mutant of CountProcessState: the empty cases fall through to the next
\* one, as they would in C, so Ending, Finishing and Info count as active.
CountProcessStateFallthrough(processes) ==
    LET n(S) == Cardinality({ i \in 1..Len(processes) : processes[i].State \in S })
        active == n({ PoolProcessRequestRunning, PoolProcessRequestReadingHeaders,
                      PoolProcessRequestEnding, PoolProcessRequestFinishing,
                      PoolProcessRequestInfo })
        idle == n({ PoolProcessRequestIdle })
    IN  [active |-> active, idle |-> idle, total |-> active + idle]

CountProcessState(processes) == CountStates(processes, 0, 0)


\* ------------------------------------------------------------ Collect
Sample(metric, src, pool, value, pid, state) ==
    [ metric |-> metric, src |-> src, pool |-> pool.Name, value |-> value,
      pid |-> pid, state |-> state ]

\* The samples of the processes of one pool (the inner loop of Collect).
ProcessSamples(src, pool) ==
    [ i \in 1..Len(pool.Processes) |->
        Sample("process_state", src, pool, 1, i, pool.Processes[i].State) ]

\* Mutant of Inconsistent: the comparison is logged in either mode.
InconsistentEitherMode(pool, countProcessState) ==
    LET c == CountProcessState(pool.Processes) IN
    /\ pool.ScrapeError = "nil"
    /\ (c.active # pool.ActiveProcesses \/ c.idle # pool.IdleProcesses)

\* Whether Collect logs the pool as inconsistent: the pool is up, the
\* exporter publishes the self-reported counts, and they differ from the
\* counts of the process list.
Inconsistent(pool, countProcessState) ==
    LET c == CountProcessState(pool.Processes) IN
    /\ pool.ScrapeError = "nil"
    /\ ~countProcessState
    /\ (c.active # pool.ActiveProcesses \/ c.idle # pool.IdleProcesses)

\* Mutant of CollectPool: the lines that fall back to the self-reported
\* counts run in either mode.
CollectPoolTrustUpstream(src, pool, countProcessState) ==
    << Sample("scrape_failures", src, pool, pool.ScrapeFailures, 0, "") >> \o
    IF pool.ScrapeError # "nil"
    THEN << Sample("up", src, pool, 0, 0, "") >>
    ELSE << Sample("up", src, pool, 1, 0, ""),
            Sample("accepted_connections", src, pool, pool.AcceptedConnections, 0, ""),
            Sample("idle_processes", src, pool, pool.IdleProcesses, 0, ""),
            Sample("active_processes", src, pool, pool.ActiveProcesses, 0, ""),
            Sample("total_processes", src, pool, pool.TotalProcesses, 0, "") >>
         \o ProcessSamples(src, pool)

\* Mutant of CollectPool: the loop without its `continue`, so that a pool
\* that is down is published like one that is up.
CollectPoolNoContinue(src, pool, countProcessState) ==
    << Sample("scrape_failures", src, pool, pool.ScrapeFailures, 0, ""),
       Sample("up", src, pool, IF pool.ScrapeError # "nil" THEN 0 ELSE 1, 0, ""),
       Sample("accepted_connections", src, pool, pool.AcceptedConnections, 0, ""),
       Sample("idle_processes", src, pool, pool.IdleProcesses, 0, ""),
       Sample("active_processes", src, pool, pool.ActiveProcesses, 0, ""),
       Sample("total_processes", src, pool, pool.TotalProcesses, 0, "") >>
    \o ProcessSamples(src, pool)

\* The samples Collect sends for one pool (the body of its loop); src is the
\* position of the pool in PoolManager.Pools.
CollectPool(src, pool, countProcessState) ==
    LET c == CountProcessState(pool.Processes)
        active == IF countProcessState THEN c.active ELSE pool.ActiveProcesses
        idle == IF countProcessState THEN c.idle ELSE pool.IdleProcesses
        total == IF countProcessState THEN c.total ELSE pool.TotalProcesses
    IN  << Sample("scrape_failures", src, pool, pool.ScrapeFailures, 0, "") >> \o
        IF pool.ScrapeError # "nil"
        THEN << Sample("up", src, pool, 0, 0, "") >>
        ELSE << Sample("up", src, pool, 1, 0, ""),
                Sample("accepted_connections", src, pool, pool.AcceptedConnections, 0, ""),
                Sample("idle_processes", src, pool, idle, 0, ""),
                Sample("active_processes", src, pool, active, 0, ""),
                Sample("total_processes", src, pool, total, 0, "") >>
             \o ProcessSamples(src, pool)

\* The loop `for _, pool := range e.PoolManager.Pools`.
RECURSIVE CollectFrom(_, _, _)
CollectFrom(i, ps, countProcessState) ==
    IF i > Len(ps)
    THEN << >>
    ELSE CollectPool(i, ps[i], countProcessState) \o CollectFrom(i + 1, ps, countProcessState)

\* ------------------------------------------------------------ the server command
\* wait := time.Second * 10, in seconds.
wait == 10

\* The exit status of a process that has not exited.
NotExited == 0 - 1

\* Mutant of ExitStatus: status 0 whatever srv.Shutdown returned.
ExitStatusZero(err) == 0

\* The exit status after srv.Shutdown(ctx) returned err: log.Fatal exits with
\* status 1, otherwise os.Exit(0).
ExitStatus(err) == IF err # "nil" THEN 1 ELSE 0

\* ------------------------------------------------------------ Init
\* PoolManager.Add was called once per configured scrape URI; no scrape yet.
\* The explored runs hold at most MaxUpdates calls of Pool.Update.  From the
\* dial on a unix address is scraped as a tcp one is, so the configurations
\* explored with one are those that start with the tcp address.
InitWith(n) ==
    /\ addr \in [1..n -> Addresses]
    /\ \A p \in 1..n : addr[p] = UnixAddress => p > 1 /\ addr[1] = TcpAddress
    /\ fixCount \in BOOLEAN
    /\ pools = [p \in 1..n |-> NewPool]
    /\ mutex = 0
    /\ cpc = [k \in Collectors |-> "idle"]
    /\ idx = [k \in Collectors |-> 0]
    /\ wg = [k \in Collectors |-> 0]
    /\ wpc = [k \in Collectors |-> [p \in 1..n |-> "none"]]
    /\ conn = [k \in Collectors |-> [p \in 1..n |-> 0]]
    /\ crashed = FALSE
    /\ samples = << >>
    /\ logged = { }
    /\ cycles = 0
    /\ prev = [p \in 1..n |-> NewPool]
    /\ ret = [p \in 1..n |-> "none"]
    /\ trace = [p \in 1..n |-> << >>]
    /\ recv = [p \in 1..n |-> "none"]
    /\ runs = [p \in 1..n |-> 0]
    /\ failed = [p \in 1..n |-> 0]
    /\ mret = [k \in Collectors |-> "none"]
    /\ procs = << >>
    /\ counted = CountProcessState(<< >>)
    /\ rawProcs = << >>
    /\ text = << >>
    /\ applied = 0
    /\ lits = << >>
    /\ dpc = "idle"
    /\ dpool = NewPool
    /\ derr = "none"
    /\ codec = [ step |-> "idle", wire |-> << >>, t |-> [sec |-> 0, nsec |-> 0],
                 rd |-> [ptr |-> << >>, val |-> 0], back |-> << >>,
                 t2 |-> [sec |-> 0, nsec |-> 0], d2 |-> 0, err |-> "nil" ]
    /\ parsed = [ step |-> "idle", rawurl |-> TcpAddress,
                  r |-> [ panic |-> FALSE, err |-> "nil", scheme |-> "",
                          address |-> << >>, path |-> << >> ] ]
    /\ upd = [ version |-> "current", pc |-> "idle", calls |-> 0, open |-> 0,
               deferred |-> 0, leaked |-> 0, ScrapeError |-> "nil",
               ScrapeFailures |-> 0, before |-> 0, ret |-> "none" ]
    /\ srv = [ pc |-> "serving", sig |-> "none", active |-> 0, waited |-> 0,
               status |-> NotExited ]

Init == \E n \in 1..NumPools : InitWith(n)

\* ------------------------------------------------------------ Exporter.Collect
\* Mutant of MutexFree: Collect without the mutex.
MutexFreeAlways == TRUE

\* e.mutex.Lock() succeeds only on a free mutex.
MutexFree == mutex = 0

\* Collect takes the mutex and calls PoolManager.Update.
Lock(k) ==
    /\ ~crashed
    /\ cpc[k] = "idle"
    /\ (cycles + 1) * Len(pools) <= MaxUpdates
    /\ MutexFree
    /\ mutex' = k
    /\ cpc' = [cpc EXCEPT ![k] = "update"]
    /\ idx' = [idx EXCEPT ![k] = 1]
    /\ wg' = [wg EXCEPT ![k] = 0]
    /\ cycles' = cycles + 1
    /\ UNCHANGED << addr, fixCount, mret, pools, wpc, conn, crashed, samples, logged, hist, runs,
                    pure >>

\* The pool the goroutine started at loop index i works on: &pm.Pools[idx].
SpawnTarget(i) == i

\* One iteration of the loop of PoolManager.Update: wg.Add(1); go func(p).
Spawn(k) ==
    /\ ~crashed
    /\ cpc[k] = "update"
    /\ idx[k] <= Len(pools)
    /\ wg' = [wg EXCEPT ![k] = @ + 1]
    /\ wpc' = [wpc EXCEPT ![k][SpawnTarget(idx[k])] = "start"]
    /\ runs' = [runs EXCEPT ![SpawnTarget(idx[k])] = @ + 1]
    /\ idx' = [idx EXCEPT ![k] = @ + 1]
    /\ cpc' = [cpc EXCEPT ![k] = IF idx[k] + 1 > Len(pools) THEN "wait" ELSE "update"]
    /\ UNCHANGED << addr, fixCount, mret, pools, mutex, conn, crashed, samples, logged, cycles,
                    hist, pure >>

\* Mutant of WaitDone: a Wait that does not wait.
WaitDoneAlways(k) == TRUE

\* wg.Wait() returns when the counter is zero.
WaitDone(k) == wg[k] = 0

\* Mutant of PoolManager_Update_result: the error of the first pool that has
\* one is returned.
PoolManager_Update_firstError(ps) ==
    IF \A p \in 1..Len(ps) : ps[p].ScrapeError = "nil" THEN "nil"
    ELSE ps[CHOOSE p \in 1..Len(ps) :
                /\ ps[p].ScrapeError # "nil"
                /\ \A q \in 1..(p - 1) : ps[q].ScrapeError = "nil"].ScrapeError

\* What PoolManager.Update returns over the pools ps: `return nil`.
PoolManager_Update_result(ps) == "nil"

\* PoolManager.Update passes the barrier and returns.
Wait(k) ==
    /\ ~crashed
    /\ cpc[k] = "wait"
    /\ WaitDone(k)
    /\ cpc' = [cpc EXCEPT ![k] = "read"]
    /\ mret' = [mret EXCEPT ![k] = PoolManager_Update_result(pools)]
    /\ UNCHANGED << addr, fixCount, pools, mutex, idx, wg, wpc, conn, crashed,
                    samples, logged, cycles, hist, runs, pure >>

\* The loop over the pools: every sample of this Collect is sent.
Emit(k) ==
    /\ ~crashed
    /\ cpc[k] = "read"
    /\ samples' = CollectFrom(1, pools, fixCount)
    /\ logged' = { p \in PoolIds : Inconsistent(pools[p], fixCount) }
    /\ cpc' = [cpc EXCEPT ![k] = "emitted"]
    /\ UNCHANGED << addr, fixCount, mret, pools, mutex, idx, wg, wpc, conn, crashed,
                    cycles, hist, runs, pure >>

\* Collect returns: the deferred e.mutex.Unlock().  The history of the
\* cycle is forgotten.
Unlock(k) ==
    /\ ~crashed
    /\ cpc[k] = "emitted"
    /\ mutex' = 0
    /\ cpc' = [cpc EXCEPT ![k] = "idle"]
    /\ idx' = [idx EXCEPT ![k] = 0]
    /\ samples' = << >>
    /\ logged' = { }
    /\ wpc' = [wpc EXCEPT ![k] = [p \in PoolIds |-> "none"]]
    /\ prev' = [p \in PoolIds |-> NewPool]
    /\ ret' = [p \in PoolIds |-> "none"]
    /\ trace' = [p \in PoolIds |-> << >>]
    /\ recv' = [p \in PoolIds |-> "none"]
    /\ runs' = [p \in PoolIds |-> 0]
    /\ mret' = [mret EXCEPT ![k] = "none"]
    /\ UNCHANGED << addr, fixCount, pools, wg, conn, crashed, cycles, failed,
                    pure >>


\* ------------------------------------------------------------ Pool.Update
\* Mutant of Fail: the error is also kept in a place the workers share, the
\* ScrapeError of every pool.
FailShared(k, p, pool, err, step) ==
    /\ pools' = [q \in PoolIds |-> IF q = p THEN Pool_error(pool, err)
                                   ELSE [pools[q] EXCEPT !.ScrapeError = err]]
    /\ ret' = [ret EXCEPT ![p] = err]
    /\ failed' = [failed EXCEPT ![p] = @ + 1]
    /\ trace' = [trace EXCEPT ![p] = @ \o step]
    /\ wpc' = [wpc EXCEPT ![k][p] = "done"]
    /\ conn' = [conn EXCEPT ![k][p] = 0]
    /\ wg' = [wg EXCEPT ![k] = @ - 1]

\* `return p.error(err)` in the goroutine of cycle k for pool p, with the
\* deferred fcgi.Close() and wg.Done().
Fail(k, p, pool, err, step) ==
    /\ pools' = [pools EXCEPT ![p] = Pool_error(pool, err)]
    /\ ret' = [ret EXCEPT ![p] = err]
    /\ failed' = [failed EXCEPT ![p] = @ + 1]
    /\ trace' = [trace EXCEPT ![p] = @ \o step]
    /\ wpc' = [wpc EXCEPT ![k][p] = "done"]
    /\ conn' = [conn EXCEPT ![k][p] = 0]
    /\ wg' = [wg EXCEPT ![k] = @ - 1]

\* Mutant of ClearScrapeError: the error of the last Update is kept.
KeepScrapeError(pool) == pool

\* p.ScrapeError = nil, the first statement of Pool.Update.
ClearScrapeError(pool) == [pool EXCEPT !.ScrapeError = "nil"]

\* p.ScrapeError = nil; parseURL(p.Address).
UpdateParse(k, p) ==
    /\ ~crashed
    /\ wpc[k][p] = "start"
    /\ prev' = [prev EXCEPT ![p] = pools[p]]
    /\ recv' = [recv EXCEPT ![p] = "none"]
    /\ LET cleared == ClearScrapeError(pools[p])
           r == parseURL(addr[p])
       IN  IF r.panic
           THEN /\ crashed' = TRUE
                /\ pools' = [pools EXCEPT ![p] = cleared]
                /\ wpc' = [wpc EXCEPT ![k][p] = "panic"]
                /\ trace' = [trace EXCEPT ![p] = << "parse" >>]
                /\ ret' = [ret EXCEPT ![p] = "none"]
                /\ UNCHANGED << failed, wg >>
           ELSE IF r.err # "nil"
           THEN /\ Fail(k, p, cleared, r.err, << "parse" >>)
                /\ UNCHANGED crashed
           ELSE /\ pools' = [pools EXCEPT ![p] = cleared]
                /\ wpc' = [wpc EXCEPT ![k][p] = "dial"]
                /\ trace' = [trace EXCEPT ![p] = << "parse" >>]
                /\ ret' = [ret EXCEPT ![p] = "none"]
                /\ UNCHANGED << crashed, failed, wg >>
    /\ UNCHANGED << addr, fixCount, mret, mutex, cpc, idx, conn, samples, logged, cycles, runs,
                    pure >>

\* fcgiclient.DialTimeout connects within its 3 seconds.
DialOK(k, p) ==
    /\ ~crashed
    /\ wpc[k][p] = "dial"
    /\ wpc' = [wpc EXCEPT ![k][p] = "get"]
    /\ conn' = [conn EXCEPT ![k][p] = @ + 1]
    /\ trace' = [trace EXCEPT ![p] = @ \o << "connect" >>]
    /\ UNCHANGED << addr, fixCount, mret, pools, mutex, cpc, idx, wg, crashed, samples, logged,
                    cycles, prev, ret, recv, runs, failed, pure >>

\* fcgiclient.DialTimeout fails: refused, or no answer within 3 seconds.
DialFail(k, p) ==
    /\ ~crashed
    /\ wpc[k][p] = "dial"
    /\ Fail(k, p, pools[p], DialError, << "connect" >>)
    /\ UNCHANGED << addr, fixCount, mret, mutex, cpc, idx, crashed, samples, logged, cycles,
                    prev, recv, runs, pure >>

\* fcgi.Get(env) returns a response.
GetOK(k, p) ==
    /\ ~crashed
    /\ wpc[k][p] = "get"
    /\ wpc' = [wpc EXCEPT ![k][p] = "read"]
    /\ trace' = [trace EXCEPT ![p] = @ \o << "request" >>]
    /\ UNCHANGED << addr, fixCount, mret, pools, mutex, cpc, idx, wg, conn, crashed,
                    samples, logged, cycles, prev, ret, recv, runs, failed, pure >>

\* fcgi.Get(env) fails.
GetFail(k, p) ==
    /\ ~crashed
    /\ wpc[k][p] = "get"
    /\ Fail(k, p, pools[p], RequestError, << "request" >>)
    /\ UNCHANGED << addr, fixCount, mret, mutex, cpc, idx, crashed, samples, logged, cycles,
                    prev, recv, runs, pure >>

\* fcgi.Get(env) on an upstream that accepted the connection and sends
\* nothing: the call is given no deadline, the goroutine stays blocked.
GetHang(k, p) ==
    /\ ~crashed
    /\ wpc[k][p] = "get"
    /\ wpc' = [wpc EXCEPT ![k][p] = "hung"]
    /\ trace' = [trace EXCEPT ![p] = @ \o << "request" >>]
    /\ UNCHANGED << addr, fixCount, mret, pools, mutex, cpc, idx, wg, conn, crashed,
                    samples, logged, cycles, prev, ret, recv, runs, failed, pure >>

\* ioutil.ReadAll(resp.Body) fails.
ReadFail(k, p) ==
    /\ ~crashed
    /\ wpc[k][p] = "read"
    /\ Fail(k, p, pools[p], ReadError, << "read" >>)
    /\ UNCHANGED << addr, fixCount, mret, mutex, cpc, idx, crashed, samples, logged, cycles,
                    prev, recv, runs, pure >>

\* ioutil.ReadAll returns the body the upstream sent in this cycle; then
\* JSONResponseFixer and json.Unmarshal(content, &p), and the return.
ReadDecode(k, p, kind) ==
    /\ ~crashed
    /\ wpc[k][p] = "read"
    /\ recv' = [recv EXCEPT ![p] = kind]
    /\ LET content == JSONResponseFixer(Payload(kind, Version(cycles)))
           r == json_Unmarshal(content, pools[p])
       IN  IF r.err # "nil"
           THEN Fail(k, p, r.pool, r.err, << "read", "repair", "decode" >>)
           ELSE /\ pools' = [pools EXCEPT ![p] = r.pool]
                /\ ret' = [ret EXCEPT ![p] = "nil"]
                /\ trace' = [trace EXCEPT ![p] = @ \o << "read", "repair", "decode" >>]
                /\ wpc' = [wpc EXCEPT ![k][p] = "done"]
                /\ conn' = [conn EXCEPT ![k][p] = 0]
                /\ wg' = [wg EXCEPT ![k] = @ - 1]
                /\ UNCHANGED failed
    /\ UNCHANGED << addr, fixCount, mret, mutex, cpc, idx, crashed, samples, logged, cycles,
                    prev, runs, pure >>

\* ------------------------------------------------------------ specification
Next ==
    \/ \E k \in Collectors : Lock(k)
    \/ \E k \in Collectors : Spawn(k)
    \/ \E k \in Collectors : Wait(k)
    \/ \E k \in Collectors : Emit(k)
    \/ \E k \in Collectors : Unlock(k)
    \/ \E k \in Collectors, p \in PoolIds : UpdateParse(k, p)
    \/ \E k \in Collectors, p \in PoolIds : DialOK(k, p)
    \/ \E k \in Collectors, p \in PoolIds : DialFail(k, p)
    \/ \E k \in Collectors, p \in PoolIds : GetOK(k, p)
    \/ \E k \in Collectors, p \in PoolIds : GetFail(k, p)
    \/ \E k \in Collectors, p \in PoolIds : GetHang(k, p)
    \/ \E k \in Collectors, p \in PoolIds : ReadFail(k, p)
    \/ \E k \in Collectors, p \in PoolIds, kind \in PayloadKinds : ReadDecode(k, p, kind)

Spec == Init /\ [][Next]_vars


\* ------------------------------------------------------------ the bytes of a status body
\* A status body is a sequence of tokens: single characters, and the fixed
\* pieces of text that PHP-FPM writes around the values of a process.
Quote == "\""
Backslash == "\\"
Newline == "\n"
Amp == "&"
KeyRequestURI == ",\"request uri\":"
KeyContentLength == ",\"content length\":"
KeyUser == "0,\"user\":"
EndProcess == "}"

\* One process of the body, with the raw text PHP-FPM put in its fields.
ProcessBytes(uri, user) ==
    << KeyRequestURI, Quote >> \o uri \o << Quote, KeyContentLength, KeyUser, Quote >>
        \o user \o << Quote, EndProcess >>

RECURSIVE Concat(_)
Concat(seqs) == IF Len(seqs) = 0 THEN << >> ELSE Head(seqs) \o Concat(Tail(seqs))

\* The body that lists the processes ps, each a record [uri, user].
BodyBytes(ps) == Concat([i \in 1..Len(ps) |-> ProcessBytes(ps[i].uri, ps[i].user)])

\* encoding/json's encoding of one character of a string (HTML escaping is
\* on in json.Marshal).
EscapeChar(ch) ==
    CASE ch = Quote -> << Backslash, Quote >>
      [] ch = Backslash -> << Backslash, Backslash >>
      [] ch = Newline -> << Backslash, "n" >>
      [] ch = Amp -> << Backslash, "u", "0", "0", "2", "6" >>
      [] OTHER -> << ch >>

\* json.Marshal of a string: the quoted, escaped text.
json_Marshal(str) ==
    << Quote >> \o Concat([i \in 1..Len(str) |-> EscapeChar(str[i])]) \o << Quote >>

\* Whether old occurs in c at position i.
OccursAt(c, old, i) ==
    /\ i + Len(old) - 1 <= Len(c)
    /\ SubSeq(c, i, i + Len(old) - 1) = old

\* strings.ReplaceAll(c, old, new) from position i on: the occurrences of
\* old, left to right, without overlap.
RECURSIVE ReplaceFrom(_, _, _, _)
ReplaceFrom(c, old, new, i) ==
    IF i > Len(c) THEN << >>
    ELSE IF OccursAt(c, old, i)
         THEN new \o ReplaceFrom(c, old, new, i + Len(old))
         ELSE << c[i] >> \o ReplaceFrom(c, old, new, i + 1)

strings_ReplaceAll(c, old, new) == ReplaceFrom(c, old, new, 1)

\* The end of the match of `(,"request uri":)"(.*?)"(,"content length":)`
\* that starts at i: the position of the closing quote, the nearest one that
\* is followed by the content length key with no newline before it; 0 if
\* there is no match at i.
MatchEnd(c, i) ==
    IF ~(i + 1 <= Len(c) /\ c[i] = KeyRequestURI /\ c[i + 1] = Quote)
    THEN 0
    ELSE LET ends == { j \in (i + 2)..(Len(c) - 1) :
                         /\ c[j] = Quote
                         /\ c[j + 1] = KeyContentLength
                         /\ \A m \in (i + 2)..(j - 1) : c[m] # Newline }
         IN  IF ends = { } THEN 0 ELSE CHOOSE j \in ends : \A j2 \in ends : j <= j2

\* re.FindAllStringSubmatch(c, -1) from position i on: the leftmost matches,
\* one after the other; each as [all, text] = match[0], match[2].
RECURSIVE FindAllFrom(_, _)
FindAllFrom(c, i) ==
    IF i > Len(c) THEN << >>
    ELSE LET j == MatchEnd(c, i) IN
         IF j = 0
         THEN FindAllFrom(c, i + 1)
         ELSE << [all |-> SubSeq(c, i, j + 1), text |-> SubSeq(c, i + 2, j - 1)] >>
                  \o FindAllFrom(c, j + 2)

\* The loop of JSONResponseFixer over the matches found in the input: every
\* match is replaced, wherever it occurs in the text as it is by then.
RECURSIVE FixMatches(_, _)
FixMatches(c, matches) ==
    IF Len(matches) = 0 THEN c
    ELSE LET match == Head(matches)
             sold == match.all
             snew == << KeyRequestURI >> \o json_Marshal(match.text) \o << KeyContentLength >>
         IN  FixMatches(strings_ReplaceAll(c, sold, snew), Tail(matches))

\* JSONResponseFixer on the bytes of a body.
JSONResponseFixerBytes(content) == FixMatches(content, FindAllFrom(content, 1))

\* ------------------------------------------------------------ decoding the bytes
\* The characters of a JSON string from position i on, decoded up to its
\* closing quote: [ok, val, next].  An escape other than the ones JSON
\* defines, a raw newline and the end of the input are syntax errors; so is
\* one of the fixed pieces of text, whose first quote would close the string
\* in front of text that is no JSON.
RECURSIVE DecodeStringFrom(_, _, _)
DecodeStringFrom(c, i, acc) ==
    LET bad == [ok |-> FALSE, val |-> acc, next |-> i] IN
    IF i > Len(c) THEN bad
    ELSE IF c[i] = Quote THEN [ok |-> TRUE, val |-> acc, next |-> i + 1]
    ELSE IF c[i] = Backslash
         THEN IF i + 1 > Len(c) THEN bad
              ELSE IF c[i + 1] \in { Quote, Backslash }
                   THEN DecodeStringFrom(c, i + 2, Append(acc, c[i + 1]))
              ELSE IF c[i + 1] = "n"
                   THEN DecodeStringFrom(c, i + 2, Append(acc, Newline))
              ELSE IF OccursAt(c, << "u", "0", "0", "2", "6" >>, i + 1)
                   THEN DecodeStringFrom(c, i + 6, Append(acc, Amp))
              ELSE bad
    ELSE IF c[i] \in { Newline, KeyRequestURI, KeyContentLength, KeyUser, EndProcess }
         THEN bad
    ELSE DecodeStringFrom(c, i + 1, Append(acc, c[i]))

\* json.Unmarshal of the processes of a body from position i on: the error
\* and the decoded RequestURI and User of every process.
RECURSIVE DecodeProcessesFrom(_, _, _)
DecodeProcessesFrom(c, i, acc) ==
    LET bad == [err |-> "decode", processes |-> << >>] IN
    IF i > Len(c) THEN [err |-> "nil", processes |-> acc]
    ELSE IF ~OccursAt(c, << KeyRequestURI, Quote >>, i) THEN bad
    ELSE LET uri == DecodeStringFrom(c, i + 2, << >>) IN
         IF ~uri.ok \/ ~OccursAt(c, << KeyContentLength, KeyUser, Quote >>, uri.next)
         THEN bad
         ELSE LET user == DecodeStringFrom(c, uri.next + 3, << >>) IN
              IF ~user.ok \/ ~OccursAt(c, << EndProcess >>, user.next)
              THEN bad
              ELSE DecodeProcessesFrom(c, user.next + 1,
                       Append(acc, [RequestURI |-> uri.val, User |-> user.val]))

json_UnmarshalBytes(c) == DecodeProcessesFrom(c, 1, << >>)

\* ------------------------------------------------------------ CountSpec
\* CountProcessState applied to every process list of at most MaxProcs
\* processes, and to the list of TestCountProcessState.
TestProcesses == [i \in 1..Len(KnownStates) |-> [State |-> KnownStates[i]]]

CountInit ==
    /\ InitWith(1)
    /\ addr = [p \in 1..1 |-> TcpAddress]
    /\ fixCount = FALSE

AddProcess(s) ==
    /\ Len(procs) < MaxProcs
    /\ procs' = Append(procs, [State |-> s])
    /\ counted' = CountProcessState(procs')
    /\ UNCHANGED << collectVars, codecVars, parseVars, serverVars, versionVars, fixVars, decVars >>

LoadTest ==
    /\ procs = << >>
    /\ procs' = TestProcesses
    /\ counted' = CountProcessState(procs')
    /\ UNCHANGED << collectVars, codecVars, parseVars, serverVars, versionVars, fixVars, decVars >>

CountNext == LoadTest \/ \E s \in ProcessStates : AddProcess(s)

CountSpec == CountInit /\ [][CountNext]_vars

\* ------------------------------------------------------------ FixSpec
\* JSONResponseFixer applied, once and once more, to every body whose
\* processes hold at most MaxRaw characters of raw text between them (every
\* process counting for one more).
RawChars == { "a", Quote, Backslash, Amp }

\* The users of TestJsonResponseFixer, shortened: plain text, my\windows\program
\* and eol\n.
Users == { << "m" >>, << "m", Backslash, "w" >>, << "e", Backslash, "n" >> }

RECURSIVE RawSize(_)
RawSize(ps) == IF Len(ps) = 0 THEN 0 ELSE 1 + Len(Head(ps).uri) + RawSize(Tail(ps))

FixInit ==
    /\ InitWith(1)
    /\ addr = [p \in 1..1 |-> TcpAddress]
    /\ fixCount = FALSE

\* PHP-FPM lists one more process.
AddRawProcess(user) ==
    /\ applied = 0
    /\ RawSize(rawProcs) < MaxRaw
    /\ rawProcs' = Append(rawProcs, [uri |-> << >>, user |-> user])
    /\ text' = BodyBytes(rawProcs')
    /\ UNCHANGED << collectVars, codecVars, parseVars, serverVars, versionVars, countVars, decVars, applied >>

\* The request uri of the last process is one character longer.
AddRawChar(ch) ==
    /\ applied = 0
    /\ Len(rawProcs) > 0
    /\ RawSize(rawProcs) < MaxRaw
    /\ rawProcs' = [rawProcs EXCEPT ![Len(rawProcs)].uri = Append(@, ch)]
    /\ text' = BodyBytes(rawProcs')
    /\ UNCHANGED << collectVars, codecVars, parseVars, serverVars, versionVars, countVars, decVars, applied >>

\* content = JSONResponseFixer(content)
ApplyFixer ==
    /\ applied < 2
    /\ Len(rawProcs) > 0
    /\ text' = JSONResponseFixerBytes(text)
    /\ applied' = applied + 1
    /\ UNCHANGED << collectVars, codecVars, parseVars, serverVars, versionVars, countVars, decVars, rawProcs >>

FixNext ==
    \/ \E user \in Users : AddRawProcess(user)
    \/ \E ch \in RawChars : AddRawChar(ch)
    \/ ApplyFixer

FixSpec == FixInit /\ [][FixNext]_vars

\* ------------------------------------------------------------ DecodeSpec
\* The end of Pool.Update, from the repair on, for every status document
\* whose start time, accepted conn, requests and request duration are each an
\* integer up to MaxLit, an integer no int64 holds, a number with a fraction,
\* or a string.
LitKinds == { "int", "big", "float", "string" }

Lit(kind, n) ==
    CASE kind = "int" -> JInt(n)
      [] kind = "big" -> JBig
      [] kind = "float" -> JFloat
      [] OTHER -> JStr(<< "x" >>)

\* The document with these four values, one Idle process, and the other
\* fields well formed.
StatusDoc(st, ac, rq, rd) ==
    [ syntax |-> "valid",
      fields |-> << << "pool", JStr(PoolName(1)) >>,
                    << "start time", st >>,
                    << "accepted conn", ac >>,
                    << "idle processes", JInt(1) >>,
                    << "active processes", JInt(0) >>,
                    << "total processes", JInt(1) >>,
                    << "processes", JArr(<< ProcDoc(PoolProcessRequestIdle, rq, rd) >>) >> >> ]

DecodeInit ==
    /\ InitWith(1)
    /\ addr = [p \in 1..1 |-> TcpAddress]
    /\ fixCount = FALSE

\* ioutil.ReadAll returned the document.
Receive(st, ac, rq, rd) ==
    /\ dpc = "idle"
    /\ lits' = [st |-> st, ac |-> ac, rq |-> rq, rd |-> rd]
    /\ dpc' = "received"
    /\ UNCHANGED << collectVars, codecVars, parseVars, serverVars, versionVars, countVars, fixVars, dpool, derr >>

\* JSONResponseFixer, json.Unmarshal into the pool, and p.error on failure.
DecodeReceived ==
    /\ dpc = "received"
    /\ LET content == JSONResponseFixer(StatusDoc(lits.st, lits.ac, lits.rq, lits.rd))
           r == json_Unmarshal(content, dpool)
       IN  /\ dpool' = IF r.err # "nil" THEN Pool_error(r.pool, r.err) ELSE r.pool
           /\ derr' = r.err
    /\ dpc' = "decoded"
    /\ UNCHANGED << collectVars, codecVars, parseVars, serverVars, versionVars, countVars, fixVars, lits >>

DecodeNext ==
    \/ \E k1, k2, k3, k4 \in LitKinds, n1, n2, n3, n4 \in 0..MaxLit :
          Receive(Lit(k1, n1), Lit(k2, n2), Lit(k3, n3), Lit(k4, n4))
    \/ DecodeReceived

DecodeSpec == DecodeInit /\ [][DecodeNext]_vars

\* ------------------------------------------------------------ the codecs of timestamp and requestDuration
\* The decimal digits, as the characters of a literal.
Digits == << "0", "1", "2", "3", "4", "5", "6", "7", "8", "9" >>

IsDigit(ch) == \E d \in 1..Len(Digits) : Digits[d] = ch

DigitValue(ch) == (CHOOSE d \in 1..Len(Digits) : Digits[d] = ch) - 1

\* The JSON grammar of a number without exponent: -? (0 | [1-9][0-9]*) (. [0-9]+)?
\* encoding/json hands a literal to UnmarshalJSON, and accepts one from
\* MarshalJSON, only when it is a valid JSON value.
IsJSONNumber(b) ==
    LET body == IF b # << >> /\ Head(b) = "-" THEN Tail(b) ELSE b
        dots == { i \in 1..Len(body) : body[i] = "." }
        int == IF dots = { } THEN body
               ELSE SubSeq(body, 1, (CHOOSE i \in dots : \A j \in dots : i <= j) - 1)
        frac == IF dots = { } THEN << >>
                ELSE SubSeq(body, (CHOOSE i \in dots : \A j \in dots : i <= j) + 1, Len(body))
    IN  /\ int # << >>
        /\ \A i \in 1..Len(int) : IsDigit(int[i])
        /\ Len(int) > 1 => int[1] # "0"
        /\ dots # { } => frac # << >>
        /\ \A i \in 1..Len(frac) : IsDigit(frac[i])

\* strconv.Atoi: an optional sign, then decimal digits and nothing else.
RECURSIVE ParseDigits(_, _)
ParseDigits(str, acc) ==
    IF str = << >> THEN acc
    ELSE ParseDigits(Tail(str), 10 * acc + DigitValue(Head(str)))

strconv_Atoi(str) ==
    LET signed == str # << >> /\ Head(str) \in { "-", "+" }
        digits == IF signed THEN Tail(str) ELSE str
    IN  IF digits = << >> \/ \E i \in 1..Len(digits) : ~IsDigit(digits[i])
        THEN [ err |-> "syntax", n |-> 0 ]
        ELSE [ err |-> "nil",
               n |-> IF signed /\ Head(str) = "-" THEN 0 - ParseDigits(digits, 0)
                     ELSE ParseDigits(digits, 0) ]

\* fmt.Sprint of an int64: its decimal form.
RECURSIVE FormatDigits(_)
FormatDigits(n) ==
    IF n < 10 THEN << Digits[n + 1] >>
    ELSE FormatDigits(n \div 10) \o << Digits[(n % 10) + 1] >>

fmt_Sprint(n) == IF n < 0 THEN << "-" >> \o FormatDigits(0 - n) ELSE FormatDigits(n)

\* fmt.Sprint of a pointer: 0x and the address in hexadecimal.
fmt_SprintPointer(ptr) == << "0", "x" >> \o ptr

\* time.Unix(sec, nsec) and Time.Unix().
time_Unix(sec, nsec) == [ sec |-> sec, nsec |-> nsec ]

Time_Unix(t) == t.sec

\* Mutant of timestamp_MarshalJSON: the seconds as a JSON string.
timestamp_MarshalQuoted(t) ==
    [ err |-> "nil", b |-> << Quote >> \o fmt_Sprint(Time_Unix(t)) \o << Quote >> ]

\* timestamp.MarshalJSON: fmt.Sprint of the Unix seconds.
timestamp_MarshalJSON(t) ==
    [ err |-> "nil", b |-> fmt_Sprint(Time_Unix(t)) ]

\* timestamp.UnmarshalJSON on the bytes of the literal: the error of
\* strconv.Atoi is returned and *t left alone, else *t = time.Unix(ts, 0).
timestamp_UnmarshalBytes(t, b) ==
    LET r == strconv_Atoi(b) IN
    IF r.err # "nil" THEN [ err |-> r.err, t |-> t ]
    ELSE [ err |-> "nil", t |-> time_Unix(r.n, 0) ]

\* requestDuration.MarshalJSON: fmt.Sprint(rd) of the receiver rd, which is the
\* pointer *requestDuration, not the duration it points to.
requestDuration_MarshalJSON(rd) ==
    [ err |-> "nil", b |-> fmt_SprintPointer(rd.ptr) ]

\* requestDuration.UnmarshalJSON on the bytes of the literal.
requestDuration_UnmarshalBytes(b) ==
    LET r == strconv_Atoi(b) IN
    IF r.err # "nil" THEN [ err |-> "nil", rd |-> 0 ] ELSE [ err |-> "nil", rd |-> r.n ]

\* json.Marshal of a value with a MarshalJSON method: the bytes it returned
\* must be a valid JSON value, else json.Marshal returns a MarshalerError.
json_MarshalValue(r) ==
    IF r.err # "nil" \/ ~IsJSONNumber(r.b) THEN [ err |-> "marshal", b |-> << >> ]
    ELSE [ err |-> "nil", b |-> r.b ]

\* ------------------------------------------------------------ CodecSpec
\* A start time or a request duration taken through its codec, in both
\* directions: a literal of the wire decoded and encoded again, and a value
\* encoded and decoded again.
WireChars == { "-", ".", "0", "1", "7" }

\* The number literals of up to MaxDigits characters.
Literals ==
    { b \in UNION { [1..n -> WireChars] : n \in 1..MaxDigits } : IsJSONNumber(b) }

\* Addresses at which a requestDuration can lie.
Pointers == { << "c", "0", "0", "0", "0", "1", "a", "0", "b", "8" >>,
              << "c", "0", "0", "0", "1", "2", "4", "0", "1", "0" >> }

CodecInit ==
    /\ InitWith(1)
    /\ addr = [p \in 1..1 |-> TcpAddress]
    /\ fixCount = FALSE

\* What a step of a codec leaves alone.
codecFrame == << collectVars, countVars, fixVars, decVars, parseVars, serverVars,
                versionVars >>

\* The decoder meets the literal b as the start time.
ReceiveStamp(b) ==
    /\ codec.step = "idle"
    /\ codec' = [codec EXCEPT !.step = "stampWire", !.wire = b]
    /\ UNCHANGED codecFrame

\* json.Unmarshal calls timestamp.UnmarshalJSON.
UnmarshalStamp ==
    LET r == timestamp_UnmarshalBytes(codec.t, codec.wire) IN
    /\ codec.step = "stampWire"
    /\ codec' = [codec EXCEPT !.step = "stampDecoded", !.t = r.t, !.err = r.err]
    /\ UNCHANGED codecFrame

\* json.Marshal of the decoded start time.
MarshalStamp ==
    LET r == json_MarshalValue(timestamp_MarshalJSON(codec.t)) IN
    /\ codec.err = "nil"
    /\ codec.step = "stampDecoded"
    /\ codec' = [codec EXCEPT !.step = "stampRound", !.back = r.b, !.err = r.err]
    /\ UNCHANGED codecFrame

\* A pool whose start time is sec seconds and nsec nanoseconds after the epoch.
SetStamp(sec, nsec) ==
    /\ codec.step = "idle"
    /\ codec' = [codec EXCEPT !.step = "stampTime", !.t = time_Unix(sec, nsec)]
    /\ UNCHANGED codecFrame

\* json.Marshal of that start time.
MarshalTime ==
    LET r == json_MarshalValue(timestamp_MarshalJSON(codec.t)) IN
    /\ codec.step = "stampTime"
    /\ codec' = [codec EXCEPT !.step = "stampEncoded", !.back = r.b, !.err = r.err]
    /\ UNCHANGED codecFrame

\* json.Unmarshal of what was encoded.
UnmarshalTime ==
    LET r == timestamp_UnmarshalBytes(codec.t2, codec.back) IN
    /\ codec.err = "nil"
    /\ codec.step = "stampEncoded"
    /\ codec' = [codec EXCEPT !.step = "timeRound", !.t2 = r.t, !.err = r.err]
    /\ UNCHANGED codecFrame

\* A process whose request duration d lies at address ptr.
SetDuration(d, ptr) ==
    /\ codec.step = "idle"
    /\ codec' = [codec EXCEPT !.step = "durValue", !.rd = [ptr |-> ptr, val |-> d]]
    /\ UNCHANGED codecFrame

\* requestDuration.MarshalJSON on that duration.
MarshalDuration ==
    LET r == requestDuration_MarshalJSON(codec.rd) IN
    /\ codec.step = "durValue"
    /\ codec' = [codec EXCEPT !.step = "durEncoded", !.back = r.b, !.err = r.err]
    /\ UNCHANGED codecFrame

\* requestDuration.UnmarshalJSON on what it returned.
UnmarshalDuration ==
    LET r == requestDuration_UnmarshalBytes(codec.back) IN
    /\ codec.step = "durEncoded"
    /\ codec' = [codec EXCEPT !.step = "durRound", !.d2 = r.rd, !.err = r.err]
    /\ UNCHANGED codecFrame

\* get --out json: json.Marshal(pm) of a manager holding that process;
\* log.Fatal when it returns an error.
MarshalManager ==
    LET r == json_MarshalValue(requestDuration_MarshalJSON(codec.rd)) IN
    /\ codec.step = "durValue"
    /\ codec' = [codec EXCEPT !.step = IF r.err = "nil" THEN "printed" ELSE "fatal", !.back = r.b, !.err = r.err]
    /\ UNCHANGED codecFrame

CodecNext ==
    \/ \E b \in Literals : ReceiveStamp(b)
    \/ UnmarshalStamp
    \/ MarshalStamp
    \/ \E sec \in (0 - MaxSec)..MaxSec, nsec \in { 0, 500 } : SetStamp(sec, nsec)
    \/ MarshalTime
    \/ UnmarshalTime
    \/ \E d \in 0..MaxSec, ptr \in Pointers : SetDuration(d, ptr)
    \/ MarshalDuration
    \/ UnmarshalDuration
    \/ MarshalManager

CodecSpec == CodecInit /\ [][CodecNext]_vars

\* ------------------------------------------------------------ ParseSpec
\* parseURL on the addresses made of a scheme, an authority and a path of up
\* to MaxPath tokens.
Schemes == { "tcp", "unix" }

Hosts == { << >>, << "127.0.0.1" >>, << "127.0.0.1", ":", "9000" >>,
           << "127.0.0.1", ":", "port" >> }

PathTokens == { "/tmp/php.sock", ";", "/status" }

Paths == UNION { [1..n -> PathTokens] : n \in 0..MaxPath }

ParseInit ==
    /\ InitWith(1)
    /\ addr = [p \in 1..1 |-> TcpAddress]
    /\ fixCount = FALSE

\* pm.Add(uri): the address of a pool.
Configure(rawurl) ==
    /\ parsed.step = "idle"
    /\ parsed' = [parsed EXCEPT !.step = "given", !.rawurl = rawurl]
    /\ UNCHANGED << collectVars, countVars, fixVars, decVars, codecVars, serverVars,
                    versionVars >>

\* scheme, address, path, err := parseURL(p.Address)
ParseAddress ==
    /\ parsed.step = "given"
    /\ LET r == parseURL(parsed.rawurl) IN
       parsed' = [parsed EXCEPT !.step = IF r.panic THEN "panic" ELSE "parsed", !.r = r]
    /\ UNCHANGED << collectVars, countVars, fixVars, decVars, codecVars, serverVars,
                    versionVars >>

ParseNext ==
    \/ \E scheme \in Schemes, host \in Hosts, path \in Paths :
          Configure([ scheme |-> scheme, host |-> host, path |-> path ])
    \/ ParseAddress

ParseSpec == ParseInit /\ [][ParseNext]_vars

\* ------------------------------------------------------------ VersionSpec
\* Pool.Update as the three versions of the package write it: the current one
\* (defer fcgi.Close()), the older one (fcgi.Close() after the read) and the
\* one that also fetches the cache status over a second connection. One pool
\* is updated up to MaxCalls times; each step succeeds or fails.
Versions == { "current", "older", "cache" }

\* Pool.error increments ScrapeFailures; the older version has no such counter.
ErrorCounts(v) == v # "older"

\* The status connection is closed by `defer fcgi.Close()`.
ClosesByDefer(v) == v # "older"

\* parseURL dereferences the nil URL of a failed url.Parse; the older version
\* calls url.Parse itself and returns its error.
ParsePanics(v) == v # "older"

\* The call returns err: the deferred Close calls run.
Update_return(u, err) ==
    [u EXCEPT !.pc = "idle", !.ret = err, !.open = @ - u.deferred, !.deferred = 0]

\* return p.error(err).
Update_error(u, err) ==
    Update_return([u EXCEPT !.ScrapeError = err,
                            !.ScrapeFailures = IF ErrorCounts(u.version) THEN @ + 1 ELSE @],
                  err)

VersionInit ==
    /\ InitWith(1)
    /\ addr = [p \in 1..1 |-> TcpAddress]
    /\ fixCount = FALSE

versionFrame == << collectVars, countVars, fixVars, decVars, codecVars, parseVars,
                   serverVars >>

\* p.Update() of version v begins: p.ScrapeError = nil.
Call(v) ==
    /\ upd.pc = "idle"
    /\ upd.calls < MaxCalls
    /\ upd.calls = 0 \/ upd.version = v
    /\ upd' = [upd EXCEPT !.version = v, !.pc = "parse", !.calls = @ + 1,
                          !.leaked = @ + upd.open, !.open = 0, !.ScrapeError = "nil",
                          !.before = upd.ScrapeFailures, !.ret = "none"]
    /\ UNCHANGED versionFrame

\* The address is parsed.
ParseStep(ok) ==
    /\ upd.pc = "parse"
    /\ upd' = IF ok THEN [upd EXCEPT !.pc = "dial"]
              ELSE IF ParsePanics(upd.version) THEN [upd EXCEPT !.pc = "panic"]
              ELSE Update_error(upd, "parse")
    /\ UNCHANGED versionFrame

\* fcgiclient.DialTimeout, and `defer fcgi.Close()` where the version has it.
DialStep(ok) ==
    /\ upd.pc = "dial"
    /\ upd' = IF ok
              THEN [upd EXCEPT !.pc = "get", !.open = @ + 1,
                               !.deferred = IF ClosesByDefer(upd.version) THEN @ + 1 ELSE @]
              ELSE Update_error(upd, DialError)
    /\ UNCHANGED versionFrame

\* fcgi.Get(env)
GetStep(ok) ==
    /\ upd.pc = "get"
    /\ upd' = IF ok THEN [upd EXCEPT !.pc = "read"] ELSE Update_error(upd, RequestError)
    /\ UNCHANGED versionFrame

\* ioutil.ReadAll(resp.Body); the older version calls fcgi.Close() after it.
ReadStep(ok) ==
    /\ upd.pc = "read"
    /\ upd' = IF ok
              THEN [upd EXCEPT !.pc = "decode",
                               !.open = IF ClosesByDefer(upd.version) THEN @ ELSE @ - 1]
              ELSE Update_error(upd, ReadError)
    /\ UNCHANGED versionFrame

\* json.Unmarshal(content, &p); then `return nil`, or the cache status.
DecodeStep(ok) ==
    /\ upd.pc = "decode"
    /\ upd' = IF ~ok THEN Update_error(upd, "decode")
              ELSE IF upd.version = "cache" THEN [upd EXCEPT !.pc = "cdial"]
              ELSE Update_return(upd, "nil")
    /\ UNCHANGED versionFrame

\* client, err := fcgiclient.DialTimeout(...); panic(err) on an error.
CacheDial(ok) ==
    /\ upd.pc = "cdial"
    /\ upd' = IF ok THEN [upd EXCEPT !.pc = "cget", !.open = @ + 1]
              ELSE [upd EXCEPT !.pc = "panic"]
    /\ UNCHANGED versionFrame

\* resp, err = client.Get(env); panic(err) on an error.
CacheGet(ok) ==
    /\ upd.pc = "cget"
    /\ upd' = IF ok THEN [upd EXCEPT !.pc = "cread"] ELSE [upd EXCEPT !.pc = "panic"]
    /\ UNCHANGED versionFrame

\* content, err = ioutil.ReadAll(resp.Body); panic(err) on an error.
CacheRead(ok) ==
    /\ upd.pc = "cread"
    /\ upd' = IF ok THEN [upd EXCEPT !.pc = "cdecode"] ELSE [upd EXCEPT !.pc = "panic"]
    /\ UNCHANGED versionFrame

\* json.Unmarshal(content, &p.CacheStatus): on an error
\* `return errors.New(string(content))`, without p.error; else `return nil`.
CacheDecode(ok) ==
    /\ upd.pc = "cdecode"
    /\ upd' = Update_return(upd, IF ok THEN "nil" ELSE "content")
    /\ UNCHANGED versionFrame

VersionNext ==
    \/ \E v \in Versions : Call(v)
    \/ \E ok \in BOOLEAN : ParseStep(ok)
    \/ \E ok \in BOOLEAN : DialStep(ok)
    \/ \E ok \in BOOLEAN : GetStep(ok)
    \/ \E ok \in BOOLEAN : ReadStep(ok)
    \/ \E ok \in BOOLEAN : DecodeStep(ok)
    \/ \E ok \in BOOLEAN : CacheDial(ok)
    \/ \E ok \in BOOLEAN : CacheGet(ok)
    \/ \E ok \in BOOLEAN : CacheRead(ok)
    \/ \E ok \in BOOLEAN : CacheDecode(ok)

VersionSpec == VersionInit /\ [][VersionNext]_vars

\* ------------------------------------------------------------ ServerSpec
\* The server command from signal.Notify on: requests come in and end, a
\* signal arrives, srv.Shutdown waits for the requests in flight for at most
\* `wait` seconds, and the process exits.
Signals == { "SIGINT", "SIGTERM" }

ServerInit ==
    /\ InitWith(1)
    /\ addr = [p \in 1..1 |-> TcpAddress]
    /\ fixCount = FALSE

serverFrame == << collectVars, countVars, fixVars, decVars, codecVars, parseVars,
                  versionVars >>

\* A client sends a request: its connection is active.
Accept ==
    /\ srv.pc = "serving"
    /\ srv.active < MaxActive
    /\ srv' = [srv EXCEPT !.active = @ + 1]
    /\ UNCHANGED serverFrame

\* A request in flight ends and its connection is idle, or closed.
Finish ==
    /\ srv.pc \in { "serving", "shutdown" }
    /\ srv.active > 0
    /\ srv' = [srv EXCEPT !.active = @ - 1]
    /\ UNCHANGED serverFrame

\* <-c: the signal is received; srv.Shutdown(ctx) closes the listener and
\* starts to wait, under a context that ends after `wait`.
Signal(sig) ==
    /\ srv.pc = "serving"
    /\ srv' = [srv EXCEPT !.pc = "shutdown", !.sig = sig, !.waited = 0]
    /\ UNCHANGED serverFrame

\* A second of the deadline passes.
Tick ==
    /\ srv.pc = "shutdown"
    /\ srv.waited < wait
    /\ srv' = [srv EXCEPT !.waited = @ + 1]
    /\ UNCHANGED serverFrame

\* srv.Shutdown finds no active connection and returns nil:
\* log.Info("Shutting down"); os.Exit(0).
ShutdownDone ==
    /\ srv.pc = "shutdown"
    /\ srv.active = 0
    /\ srv' = [srv EXCEPT !.pc = "exited", !.status = ExitStatus("nil")]
    /\ UNCHANGED serverFrame

\* The context ends first: srv.Shutdown returns its error and
\* log.Fatal("Error during shutdown", err) ends the process.
ShutdownTimeout ==
    /\ srv.pc = "shutdown"
    /\ srv.waited = wait
    /\ srv' = [srv EXCEPT !.pc = "exited", !.status = ExitStatus("deadline")]
    /\ UNCHANGED serverFrame

ServerNext ==
    \/ Accept
    \/ Finish
    \/ \E sig \in Signals : Signal(sig)
    \/ Tick
    \/ ShutdownDone
    \/ ShutdownTimeout

\* Time passes and the main goroutine runs; nothing makes a request end.
ServerSpec ==
    /\ ServerInit
    /\ [][ServerNext]_vars
    /\ WF_vars(Tick)
    /\ WF_vars(ShutdownDone)
    /\ WF_vars(ShutdownTimeout)

\* ------------------------------------------------------------ helpers of the claims
Last(q) == q[Len(q)]

IsPrefix(q, r) == Len(q) <= Len(r) /\ q = SubSeq(r, 1, Len(q))

\* The error a failing step hands to Pool.error.
ErrorOfStep(step) ==
    CASE step = "parse" -> "parse"
      [] step = "connect" -> DialError
      [] step = "request" -> RequestError
      [] step = "read" -> ReadError
      [] OTHER -> "decode"

\* The Update of pool p in cycle k is over and one of its steps failed:
\* it returned an error, or it panicked.
EndedInFailure(k, p) ==
    \/ wpc[k][p] = "panic"
    \/ wpc[k][p] = "done" /\ ret[p] # "nil"

\* PoolManager.Update of Collect k has returned.
Returned(k) == cpc[k] \in { "read", "emitted" }

\* The number of samples of a metric that Collect sent for the pool at src.
NumSamples(metric, src) ==
    Cardinality({ i \in 1..Len(samples) :
                    samples[i].metric = metric /\ samples[i].src = src })

\* The number of processes of a list whose state is in S.
NumInState(ps, S) == Cardinality({ i \in 1..Len(ps) : ps[i].State \in S })


\* ------------------------------------------------------------ claims
\* C1: whichever step of Pool.Update fails (address parse, connect, request,
\* read, repair, decode), the error of that step is stored as ScrapeError,
\* ScrapeFailures grows by exactly 1, and the steps executed are an initial
\* part of the sequence that ends with the failing step.
C1_FailedStepIsRecorded ==
    \A k \in Collectors, p \in PoolIds :
        EndedInFailure(k, p) =>
            /\ pools[p].ScrapeError = ErrorOfStep(Last(trace[p]))
            /\ pools[p].ScrapeFailures = prev[p].ScrapeFailures + 1
            /\ IsPrefix(trace[p], Steps)

\* C2: whenever a Pool.Update leaves ScrapeError non-nil, the Name, the
\* upstream-reported fields and the process list are what they were before
\* the call.
C2_FailedUpdateKeepsData ==
    \A k \in Collectors, p \in PoolIds :
        (wpc[k][p] = "done" /\ pools[p].ScrapeError # "nil") =>
            Reported(pools[p]) = Reported(prev[p])

\* C3: Pool.Update never ends in a panic, whatever the address and the
\* upstream do; the process survives every Update.
C3_UpdateNeverPanics ==
    /\ ~crashed
    /\ \A k \in Collectors, p \in PoolIds : wpc[k][p] # "panic"

\* C4: when PoolManager.Update has returned, exactly one Pool.Update was
\* started for every configured pool in that cycle, and every one of them
\* has returned: no goroutine of the cycle is still running.
C4_UpdateJoinsEveryPool ==
    \A k \in Collectors :
        Returned(k) => \A p \in PoolIds : runs[p] = 1 /\ wpc[k][p] = "done"

C4_Witness ==
    \E k \in Collectors :
        /\ Returned(k)
        /\ Len(pools) >= 2
        /\ \E p, q \in PoolIds : ret[p] = "nil" /\ ret[q] # "nil"

\* C5: fan-out isolation.  At the end of a cycle in which pool K failed,
\* K has one more ScrapeFailures and its prior fields, and every other pool
\* whose upstream answered with a valid payload has ScrapeError nil and the
\* fields of that payload.
C5_FanOutIsolation ==
    \A k \in Collectors :
        Returned(k) =>
            \A K, q \in PoolIds :
                (K # q /\ ret[K] # "nil" /\ recv[q] \in { "ok", "rawquote" }) =>
                    /\ pools[K].ScrapeFailures = prev[K].ScrapeFailures + 1
                    /\ Reported(pools[K]) = Reported(prev[K])
                    /\ pools[q].ScrapeError = "nil"
                    /\ Reported(pools[q]) = ReportedBy(Version(cycles))

\* The steps of the PoolManager.Update run by Collect k: its loop, its
\* barrier and the steps of its goroutines.
UpdateStep(k) ==
    \/ Spawn(k)
    \/ Wait(k)
    \/ \E p \in PoolIds :
          \/ UpdateParse(k, p) \/ DialOK(k, p) \/ DialFail(k, p)
          \/ GetOK(k, p) \/ GetFail(k, p) \/ GetHang(k, p) \/ ReadFail(k, p)
          \/ \E kind \in PayloadKinds : ReadDecode(k, p, kind)

\* C6: a PoolManager.Update in progress can always take a step: none of its
\* goroutines is blocked for good on its upstream, so the call returns.
C6_UpdateNeverStuck ==
    \A k \in Collectors :
        (~crashed /\ cpc[k] \in { "update", "wait" }) => ENABLED UpdateStep(k)

\* C7: the ScrapeFailures of every pool always equals the number of Updates
\* of that pool that have returned an error; in every step it either stays
\* as it is or grows by exactly 1 (never decreases, never reset), and it
\* grows exactly when an Update of that pool returns an error.
C7_FailuresCountFailedUpdates ==
    /\ [](\A p \in PoolIds : pools[p].ScrapeFailures = failed[p])
    /\ [][ \A p \in PoolIds :
             \/ /\ pools'[p].ScrapeFailures = pools[p].ScrapeFailures + 1
                /\ failed'[p] = failed[p] + 1
             \/ /\ pools'[p].ScrapeFailures = pools[p].ScrapeFailures
                /\ failed'[p] = failed[p] ]_vars

C7_Witness ==
    \E k \in Collectors, p \in PoolIds :
        /\ wpc[k][p] = "done"
        /\ ret[p] = "nil"
        /\ pools[p].ScrapeFailures = 2
        /\ failed[p] = 2

\* C8: at most one Collect is past its Lock; goroutines run only for the
\* Collect that holds the mutex; and while a Collect reads the pools, every
\* goroutine of its cycle is done and no goroutine of another cycle exists.
C8_CollectSerialized ==
    /\ Cardinality({ k \in Collectors : cpc[k] # "idle" }) <= 1
    /\ \A k \in Collectors, p \in PoolIds :
          wpc[k][p] # "none" => (mutex = k /\ cpc[k] # "idle")
    /\ \A k \in Collectors :
          Returned(k) =>
              \A k2 \in Collectors, p \in PoolIds :
                  IF k2 = k THEN wpc[k2][p] = "done" ELSE wpc[k2][p] = "none"

C8_Witness ==
    /\ cycles >= 2
    /\ mutex = 2
    /\ cpc[2] = "read"
    /\ cpc[1] = "idle"

\* C9: in every Collect, for every configured pool, exactly one
\* scrape_failures sample with the pool's ScrapeFailures and exactly one up
\* sample are sent; up is 1 iff the pool's Update of this cycle returned no
\* error; for a pool that is down nothing else is sent.
C9_UpAndFailuresPerPool ==
    \A k \in Collectors :
        cpc[k] = "emitted" =>
            \A p \in PoolIds :
                /\ NumSamples("scrape_failures", p) = 1
                /\ NumSamples("up", p) = 1
                /\ \A i \in 1..Len(samples) :
                      samples[i].src = p =>
                          /\ samples[i].metric = "scrape_failures"
                                => samples[i].value = pools[p].ScrapeFailures
                          /\ samples[i].metric = "up"
                                => samples[i].value = (IF ret[p] = "nil" THEN 1 ELSE 0)
                          /\ ret[p] # "nil"
                                => samples[i].metric \in { "scrape_failures", "up" }

C9_Witness ==
    \E k \in Collectors :
        /\ cpc[k] = "emitted"
        /\ \E p, q \in PoolIds :
              /\ ret[p] = "nil" /\ Len(pools[p].Processes) > 0
              /\ ret[q] # "nil" /\ Len(pools[q].Processes) > 0
              /\ pools[q].ScrapeFailures = 1

SampleValues(metric, src) ==
    { samples[i].value : i \in { j \in 1..Len(samples) :
                                   samples[j].metric = metric /\ samples[j].src = src } }

\* The pool at p was scraped without error in the cycle whose metrics are out.
Reachable(p) == ret[p] = "nil"

ActiveStates == { PoolProcessRequestRunning, PoolProcessRequestReadingHeaders }

\* The self-reported (active, idle) of a pool differ from the counts of its
\* process list.
Discrepancy(pool) ==
    \/ NumInState(pool.Processes, ActiveStates) # pool.ActiveProcesses
    \/ NumInState(pool.Processes, { PoolProcessRequestIdle }) # pool.IdleProcesses

\* C11: the published active, idle and total gauges of a reachable pool are
\* the self-reported counts when CountProcessState is false, and the counts
\* of the process list (active = Running + Reading headers, idle = Idle,
\* total = their sum) when it is true.
C11_GaugesByConfiguration ==
    \A k \in Collectors :
        cpc[k] = "emitted" =>
            \A p \in PoolIds :
                Reachable(p) =>
                    LET a == NumInState(pools[p].Processes, ActiveStates)
                        i == NumInState(pools[p].Processes, { PoolProcessRequestIdle })
                    IN  /\ SampleValues("active_processes", p) =
                              { IF fixCount THEN a ELSE pools[p].ActiveProcesses }
                        /\ SampleValues("idle_processes", p) =
                              { IF fixCount THEN i ELSE pools[p].IdleProcesses }
                        /\ SampleValues("total_processes", p) =
                              { IF fixCount THEN a + i ELSE pools[p].TotalProcesses }

C11_Witness ==
    \E k \in Collectors, p \in PoolIds :
        /\ cpc[k] = "emitted"
        /\ fixCount
        /\ Reachable(p)
        /\ Discrepancy(pools[p])
        /\ pools[p].TotalProcesses # NumInState(pools[p].Processes, ActiveStates)
                                     + NumInState(pools[p].Processes, { PoolProcessRequestIdle })

\* The metrics of the pool at p are all out: one sample of every pool metric
\* and one process_state sample per process.
PublishedInFull(p) ==
    /\ \A m \in { "up", "accepted_connections", "idle_processes",
                  "active_processes", "total_processes" } : NumSamples(m, p) = 1
    /\ NumSamples("process_state", p) = Len(pools[p].Processes)

\* C12 as stated: in either mode, a reachable pool is logged as inconsistent
\* exactly when the counts of its process list differ from its self-reported
\* (active, idle), and its metrics are published in full.
C12_WarningInEitherMode ==
    \A k \in Collectors :
        cpc[k] = "emitted" =>
            \A p \in PoolIds :
                Reachable(p) =>
                    /\ (p \in logged) <=> Discrepancy(pools[p])
                    /\ PublishedInFull(p)

\* C12 as amended: a reachable pool is logged as inconsistent exactly when
\* CountProcessState is false and the counts of its process list differ from
\* its self-reported (active, idle); with CountProcessState true nothing is
\* logged; in every case its metrics are published in full.
C12_WarningWhenTrustingUpstream ==
    \A k \in Collectors :
        cpc[k] = "emitted" =>
            \A p \in PoolIds :
                Reachable(p) =>
                    /\ (p \in logged) <=> (~fixCount /\ Discrepancy(pools[p]))
                    /\ PublishedInFull(p)

C12_Witness ==
    \E k \in Collectors, p \in PoolIds :
        /\ cpc[k] = "emitted"
        /\ ~fixCount
        /\ Reachable(p)
        /\ p \in logged
        /\ PublishedInFull(p)

\* C13: with CountProcessState true, the published active-process count of a
\* reachable pool is the number of its processes that are Running, Reading
\* headers or Getting request informations.
C13_ActiveIncludesInfo ==
    \A k \in Collectors :
        (cpc[k] = "emitted" /\ fixCount) =>
            \A p \in PoolIds :
                Reachable(p) =>
                    SampleValues("active_processes", p) =
                        { NumInState(pools[p].Processes,
                                     ActiveStates \cup { PoolProcessRequestInfo }) }

\* The body PHP-FPM sent: the input of the first JSONResponseFixer.
Content == BodyBytes(rawProcs)

\* The raw text holds a double quote that no backslash precedes.
HasRawQuote(str) ==
    \E i \in 1..Len(str) : str[i] = Quote /\ (i = 1 \/ str[i - 1] # Backslash)

HasChar(str, ch) == \E i \in 1..Len(str) : str[i] = ch

SingleLine(c) == ~HasChar(c, Newline)

\* C14: for a single-line body in which the request uri of a process holds
\* raw unescaped double quotes (and whose user fields are plain text), the
\* output of JSONResponseFixer decodes without error and the decoded
\* RequestURI of every process is the raw text of its field.
C14_RepairedURIIsRawText ==
    ( /\ applied = 1
      /\ SingleLine(Content)
      /\ \E i \in 1..Len(rawProcs) : HasRawQuote(rawProcs[i].uri)
      /\ \A i \in 1..Len(rawProcs) : ~HasChar(rawProcs[i].user, Backslash) )
    => LET d == json_UnmarshalBytes(text) IN
       /\ d.err = "nil"
       /\ Len(d.processes) = Len(rawProcs)
       /\ \A i \in 1..Len(rawProcs) : d.processes[i].RequestURI = rawProcs[i].uri

\* C15: JSONResponseFixer is idempotent: applied twice to a body, it yields
\* the bytes that one application yields.
C15_FixerIdempotent ==
    applied = 2 => text = JSONResponseFixerBytes(Content)

\* C16: when the body is valid JSON already, JSONResponseFixer returns its
\* bytes unchanged.
C16_ValidInputUnchanged ==
    (applied = 1 /\ json_UnmarshalBytes(Content).err = "nil") => text = Content

\* The body in which the request uri of every process is the JSON encoding of
\* its own raw text, and everything else is as PHP-FPM sent it.
EachRepaired(ps) ==
    Concat([i \in 1..Len(ps) |->
              << KeyRequestURI >> \o json_Marshal(ps[i].uri)
                 \o << KeyContentLength, KeyUser, Quote >> \o ps[i].user
                 \o << Quote, EndProcess >>])

\* C17: JSONResponseFixer repairs every occurrence independently: in its
\* output the request uri of each process is the JSON encoding of that
\* process's own raw text, and no other field is altered.
C17_EachMatchRepairedAlone ==
    (applied = 1 /\ SingleLine(Content)) => text = EachRepaired(rawProcs)

\* C18: after JSONResponseFixer, a body with a user field that holds raw
\* backslash sequences decodes without error, and the decoded User of every
\* process is the raw text of its field.
C18_UserBackslashesKept ==
    ( /\ applied = 1
      /\ \E i \in 1..Len(rawProcs) : HasChar(rawProcs[i].user, Backslash) )
    => LET d == json_UnmarshalBytes(text) IN
       /\ d.err = "nil"
       /\ Len(d.processes) = Len(rawProcs)
       /\ \A i \in 1..Len(rawProcs) : d.processes[i].User = rawProcs[i].user

C20_OnlyDurationIsCoerced ==
    dpc = "decoded" =>
        LET malformed == lits.st.t # "int" \/ lits.ac.t # "int" \/ lits.rq.t # "int" IN
        /\ malformed =>
              /\ derr # "nil"
              /\ dpool.ScrapeError = derr
              /\ dpool.ScrapeFailures = 1
        /\ ~malformed =>
              /\ derr = "nil"
              /\ dpool.ScrapeError = "nil"
              /\ dpool.ScrapeFailures = 0

C20_Witness ==
    /\ dpc = "decoded"
    /\ lits.rq.t = "big"
    /\ lits.st.t = "int" /\ lits.ac.t = "int" /\ lits.rd.t = "int"
    /\ dpool.ScrapeError = "decode"
    /\ dpool.ScrapeFailures = 1

\* The decimal form of an integer: a number literal without fraction, other
\* than -0.
IsDecimal(b) ==
    /\ IsJSONNumber(b)
    /\ \A i \in 1..Len(b) : b[i] # "."
    /\ b # << "-", "0" >>

\* C21: the start time is a bare integer of epoch seconds in both directions:
\* what is encoded is the decimal form of an integer, a decimal integer that
\* is decoded and encoded again comes back unchanged, and a time of whole
\* seconds that is encoded and decoded again comes back unchanged.
C21_TimestampRoundTrip ==
    /\ codec.step \in { "stampRound", "stampEncoded", "timeRound" }
          => IsDecimal(codec.back)
    /\ codec.step = "stampDecoded" /\ IsDecimal(codec.wire) => codec.err = "nil"
    /\ codec.step = "stampRound" /\ IsDecimal(codec.wire)
          => codec.err = "nil" /\ codec.back = codec.wire
    /\ codec.step = "timeRound" /\ codec.t.nsec = 0
          => codec.err = "nil" /\ codec.t2 = codec.t

C21_Witness ==
    /\ codec.step = "stampRound"
    /\ IsDecimal(codec.wire)
    /\ Len(codec.wire) > 2
    /\ Head(codec.wire) = "-"
    /\ codec.t.sec < 0

\* C30: the request duration round-trips through its codec: what is encoded
\* is the decimal form of the duration, decoding it gives the duration back,
\* and a manager holding a process is encoded to JSON without an error.
C30_DurationRoundTrip ==
    /\ codec.step \in { "durEncoded", "durRound" } => codec.back = fmt_Sprint(codec.rd.val)
    /\ codec.step = "durRound" => codec.d2 = codec.rd.val
    /\ codec.step # "fatal"

\* The positions of ";" in a path.
Semicolons(path) == { i \in 1..Len(path) : path[i] = ";" }

FirstSemicolon(path) == CHOOSE i \in Semicolons(path) : \A j \in Semicolons(path) : i <= j

\* C22: parseURL splits an address that is a URI without error: for tcp the
\* target is the authority and the status path is the path of the URI; for
\* unix the target is the path before its first ";" and the status path is
\* all of the path after that ";", or empty when the path has no ";".
C22_ParseURLSplits ==
    parsed.step \in { "parsed", "panic" } /\ url_Parse(parsed.rawurl).err = "nil"
       => LET in == parsed.rawurl
              r == parsed.r
          IN  /\ ~r.panic
              /\ r.err = "nil"
              /\ r.scheme = in.scheme
              /\ in.scheme = "tcp" => r.address = in.host /\ r.path = in.path
              /\ in.scheme = "unix" /\ Semicolons(in.path) = { }
                    => r.address = in.path /\ r.path = << >>
              /\ in.scheme = "unix" /\ Semicolons(in.path) # { }
                    => /\ r.address = SubSeq(in.path, 1, FirstSemicolon(in.path) - 1)
                       /\ r.path = SubSeq(in.path, FirstSemicolon(in.path) + 1, Len(in.path))

\* C23: every connection a Pool.Update call opened is closed when the call
\* has returned, whichever way it returned and whichever connection it is.
C23_ConnectionsClosedOnReturn ==
    upd.pc = "idle" /\ upd.calls > 0 => upd.open = 0

\* C27: what Pool.Update returns agrees with the pool, in the versions that
\* count failures: the returned error is the ScrapeError of the pool (nil with
\* nil), and ScrapeFailures went up by one exactly when the returned error is
\* not nil.
C27_ReturnAgreesWithPool ==
    upd.pc = "idle" /\ upd.calls > 0 /\ ErrorCounts(upd.version)
       => /\ upd.ret = upd.ScrapeError
          /\ upd.ScrapeFailures = upd.before + (IF upd.ret # "nil" THEN 1 ELSE 0)

\* C24: PoolManager.Update returns nil whichever of its pools failed; the
\* error of a pool is on that pool only, as its ScrapeError.
C24_ManagerReturnsNil ==
    \A k \in Collectors : Returned(k)
        => /\ mret[k] = "nil"
           /\ \A p \in PoolIds : pools[p].ScrapeError = ret[p]

C24_Witness ==
    \E k \in Collectors :
        /\ Returned(k)
        /\ mret[k] = "nil"
        /\ \E p, q \in PoolIds : ret[p] = "nil" /\ ret[q] \notin { "nil", "none" }

\* C26: ScrapeError tells of the most recent Update only: an Update under way
\* has cleared it, and after an Update that succeeded it is nil however many
\* earlier Updates failed, while ScrapeFailures still counts all of them.
C26_ScrapeErrorIsOfLastUpdate ==
    \A p \in PoolIds :
        /\ (\E k \in Collectors : wpc[k][p] \in { "dial", "get", "read" })
              => pools[p].ScrapeError = "nil"
        /\ ret[p] = "nil"
              => pools[p].ScrapeError = "nil" /\ pools[p].ScrapeFailures = failed[p]

C26_Witness ==
    \E p \in PoolIds :
        /\ ret[p] = "nil"
        /\ failed[p] > 0
        /\ pools[p].ScrapeError = "nil"
        /\ pools[p].ScrapeFailures = failed[p]

\* Pool.Update run alone on the pool old, against an upstream that lets it
\* end with err and, when it answers, sends the body of that kind.
UpdateAlone(old, err, kind) ==
    LET cleared == ClearScrapeError(old) IN
    IF kind = "none" THEN Pool_error(cleared, err)
    ELSE LET r == json_Unmarshal(JSONResponseFixer(Payload(kind, Version(cycles))), cleared)
         IN  IF r.err # "nil" THEN Pool_error(r.pool, r.err) ELSE r.pool

\* C28: the result of a cycle does not depend on the scheduling of its
\* workers: when PoolManager.Update has returned, every pool was updated once
\* and is what Pool.Update, run alone on the pool as it was before the cycle
\* and against the same upstream response, leaves; so it is also what the
\* Updates run one after another, in any order, leave.
C28_CycleIsSchedulingIndependent ==
    \A k \in Collectors : Returned(k) =>
        \A p \in PoolIds :
            /\ runs[p] = 1
            /\ ret[p] # "none"
            /\ pools[p] = UpdateAlone(prev[p], ret[p], recv[p])

C28_Witness ==
    \E k \in Collectors :
        /\ Returned(k)
        /\ cycles > 1
        /\ \E p, q \in PoolIds :
              /\ ret[p] = "nil" /\ ret[q] = RequestError
              /\ prev[p].ScrapeFailures > 0
              /\ prev[q].Name # ""

\* What identifies a sample to Prometheus: the name of its metric and the
\* values of its labels (pool, and for a process also pid_hash and state).
Labels(s) == << s.metric, s.pool, s.pid, s.state >>

\* C29: when the configured addresses are pairwise distinct, no two samples
\* of one Collect have the same metric name and the same label values, also
\* when pools report the same name or were never scraped successfully.
C29_SamplesAreDistinct ==
    (\A p, q \in PoolIds : p # q => addr[p] # addr[q])
       => \A i, j \in 1..Len(samples) :
             i # j => Labels(samples[i]) # Labels(samples[j])

====
